---- MODULE Spec2Model ----
(***************************************************************************)
(* The CNN wizard (src/App.tsx), its simulated training run and the two    *)
(* gateway calls to the generative service (src/geminiService.ts).         *)
(*                                                                         *)
(* Numbers: accuracies and losses are fixed-point integers in units of     *)
(* 1e-5 (0.45 is 45000); a value of Math.random() is an integer number of  *)
(* hundredths (0..99, never 100); a confidence is a number of hundredths.  *)
(***************************************************************************)
EXTENDS Integers, Sequences, FiniteSets, TLC

VARIABLES
    batching,      \* how the React root commits updates made outside click handlers
    random,        \* the triples of values Math.random() can return to one tick
    crashed,       \* a render threw: React unmounted the tree
    step,          \* useState, App.tsx:97
    isTraining,    \* useState, App.tsx:100
    trainingData,  \* useState, App.tsx:101
    testImage,     \* useState, App.tsx:102
    prediction,    \* useState, App.tsx:103
    isAnalyzing,   \* useState, App.tsx:104
    summaryText,   \* useState, App.tsx:105
    finalReport,   \* useState, App.tsx:106
    timers,        \* the setInterval closures of simulateTraining
    pending,       \* state updates enqueued and not yet rendered
    calls,         \* gateway calls in flight (promises not yet consumed)
    readers,       \* the files whose FileReader load is in flight
    alert,         \* the message of the open window.alert dialog, "" when none
    loads          \* how many times the page has been loaded

vars == <<batching, random, crashed, step, isTraining, trainingData, testImage,
          prediction, isAnalyzing, summaryText, finalReport, timers, pending,
          calls, readers, alert, loads>>

----------------------------------------------------------------------------
(* Bounds of the model *)

MaxPending == 1
MaxTimers == 2
MaxCalls == 2
MaxLoads == 2

(* Program constants, App.tsx:130-140.  A gain or drop is the factor of    *)
(* Math.random() in units of 1e-5 per hundredth: 0.08 is 80                *)

totalEpochs == 15
SeedAccuracy == 45000
SeedValAccuracy == 42000
SeedLoss == 120000
AccuracyCeiling == 98000
ValAccuracyCeiling == 95000
LossFloor == 10000
AccuracyGain == 80
ValAccuracyGain == 60
LossDrop == 150

----------------------------------------------------------------------------
(* JavaScript values *)

Min(a, b) == IF a <= b THEN a ELSE b
Max(a, b) == IF a >= b THEN a ELSE b

Undefined == [t |-> "undefined", n |-> 0, s |-> "", items |-> <<>>]
Str(x) == [t |-> "string", n |-> 0, s |-> x, items |-> <<>>]
Num(k) == [t |-> "number", n |-> k, s |-> "", items |-> <<>>]
Arr(xs) == [t |-> "array", n |-> 0, s |-> "", items |-> xs]

Obj(l, c, e, f) ==
    [isNull |-> FALSE, label |-> l, confidence |-> c, explanation |-> e, features |-> f]
Null ==
    [isNull |-> TRUE, label |-> Undefined, confidence |-> Undefined,
     explanation |-> Undefined, features |-> Undefined]

NoImage == "null"
Images == {"data:image/jpeg;base64,A", "data:image/jpeg;base64,B"}

NoError == [name |-> "none", cause |-> ""]

----------------------------------------------------------------------------
(* ProjectStep, src/unnamed/part_000:1-9, and nextStep / prevStep *)

ProjectStep ==
    <<"INTRO", "DATASET", "PREPROCESSING", "ARCHITECTURE", "TRAINING",
      "EVALUATION", "SUMMARY">>

indexOf(s) == CHOOSE i \in 1..Len(ProjectStep) : ProjectStep[i] = s

nextStepOf(s) ==
    IF indexOf(s) < Len(ProjectStep) THEN ProjectStep[indexOf(s) + 1] ELSE s

prevStepOf(s) ==
    IF indexOf(s) > 1 THEN ProjectStep[indexOf(s) - 1] ELSE s

----------------------------------------------------------------------------
(* The state updater of one tick, App.tsx:133-149.  r is the triple of     *)
(* Math.random() values it draws, epoch the value of currentEpoch it reads *)

\* the updater without its ceilings and floor
NewPointUnclamped(prev, epoch, r) ==
    LET lastAcc == IF Len(prev) > 0 THEN prev[Len(prev)].accuracy ELSE SeedAccuracy
        lastValAcc == IF Len(prev) > 0 THEN prev[Len(prev)].val_accuracy ELSE SeedValAccuracy
        lastLoss == IF Len(prev) > 0 THEN prev[Len(prev)].loss ELSE SeedLoss
        newAcc == lastAcc + r[1] * AccuracyGain
        newValAcc == lastValAcc + r[2] * ValAccuracyGain
        newLoss == lastLoss - r[3] * LossDrop
    IN  [epoch |-> epoch, accuracy |-> newAcc, val_accuracy |-> newValAcc,
         loss |-> newLoss, val_loss |-> (newLoss * 11) \div 10]

\* an updater whose draws are centred on zero: an unbiased random walk
NewPointCentredDraw(prev, epoch, r) ==
    LET lastAcc == IF Len(prev) > 0 THEN prev[Len(prev)].accuracy ELSE SeedAccuracy
        lastValAcc == IF Len(prev) > 0 THEN prev[Len(prev)].val_accuracy ELSE SeedValAccuracy
        lastLoss == IF Len(prev) > 0 THEN prev[Len(prev)].loss ELSE SeedLoss
        newAcc == Min(AccuracyCeiling, lastAcc + (r[1] - 50) * AccuracyGain)
        newValAcc == Min(ValAccuracyCeiling, lastValAcc + (r[2] - 50) * ValAccuracyGain)
        newLoss == Max(LossFloor, lastLoss - (r[3] - 50) * LossDrop)
    IN  [epoch |-> epoch, accuracy |-> newAcc, val_accuracy |-> newValAcc,
         loss |-> newLoss, val_loss |-> (newLoss * 11) \div 10]

NewPoint(prev, epoch, r) ==
    LET lastAcc == IF Len(prev) > 0 THEN prev[Len(prev)].accuracy ELSE SeedAccuracy
        lastValAcc == IF Len(prev) > 0 THEN prev[Len(prev)].val_accuracy ELSE SeedValAccuracy
        lastLoss == IF Len(prev) > 0 THEN prev[Len(prev)].loss ELSE SeedLoss
        newAcc == Min(AccuracyCeiling, lastAcc + r[1] * AccuracyGain)
        newValAcc == Min(ValAccuracyCeiling, lastValAcc + r[2] * ValAccuracyGain)
        newLoss == Max(LossFloor, lastLoss - r[3] * LossDrop)
    IN  [epoch |-> epoch, accuracy |-> newAcc, val_accuracy |-> newValAcc,
         loss |-> newLoss, val_loss |-> (newLoss * 11) \div 10]

Updater(prev, epoch, r) == Append(prev, NewPoint(prev, epoch, r))

----------------------------------------------------------------------------
(* State updates.  A click handler's updates are rendered when the handler *)
(* returns.  Updates made by a timer callback, a promise continuation or a *)
(* FileReader event are rendered at once by a legacy root (batching FALSE) *)
(* and queued until the next render by a concurrent root (batching TRUE).  *)

NoUpdate ==
    [hook |-> "", timer |-> 0, b |-> FALSE, obj |-> Null, val |-> Undefined, str |-> ""]

SetTrainingDataFn(t) == [NoUpdate EXCEPT !.hook = "trainingData", !.timer = t]
SetTrainingDataEmpty == [NoUpdate EXCEPT !.hook = "trainingDataEmpty"]
SetIsTraining(b) == [NoUpdate EXCEPT !.hook = "isTraining", !.b = b]
SetStep(s) == [NoUpdate EXCEPT !.hook = "step", !.str = s]
SetTestImage(i) == [NoUpdate EXCEPT !.hook = "testImage", !.str = i]
SetPrediction(o) == [NoUpdate EXCEPT !.hook = "prediction", !.obj = o]
SetIsAnalyzing(b) == [NoUpdate EXCEPT !.hook = "isAnalyzing", !.b = b]
SetSummaryText(s) == [NoUpdate EXCEPT !.hook = "summaryText", !.str = s]
SetFinalReport(v) == [NoUpdate EXCEPT !.hook = "finalReport", !.val = v]

Rendered ==
    [step |-> step, isTraining |-> isTraining, trainingData |-> trainingData,
     testImage |-> testImage, prediction |-> prediction, isAnalyzing |-> isAnalyzing,
     summaryText |-> summaryText, finalReport |-> finalReport]

\* one update applied to the hook states st; an updater function runs when
\* the update is processed: it reads the currentEpoch of its closure as it is
\* then (timers tm) and draws its random values r then
ApplyUpdate(st, u, tm, r) ==
    CASE u.hook = "trainingData" ->
            [st EXCEPT !.trainingData = Updater(@, tm[u.timer].currentEpoch, r)]
      [] u.hook = "trainingDataEmpty" -> [st EXCEPT !.trainingData = <<>>]
      [] u.hook = "isTraining" -> [st EXCEPT !.isTraining = u.b]
      [] u.hook = "step" -> [st EXCEPT !.step = u.str]
      [] u.hook = "testImage" -> [st EXCEPT !.testImage = u.str]
      [] u.hook = "prediction" -> [st EXCEPT !.prediction = u.obj]
      [] u.hook = "isAnalyzing" -> [st EXCEPT !.isAnalyzing = u.b]
      [] u.hook = "summaryText" -> [st EXCEPT !.summaryText = u.str]
      [] u.hook = "finalReport" -> [st EXCEPT !.finalReport = u.val]

\* the updates us applied in order; rs[i] is what Math.random() returns to the
\* i-th update if it is an updater function
RECURSIVE ApplyAll(_, _, _, _)
ApplyAll(st, us, tm, rs) ==
    IF us = <<>> THEN st
    ELSE ApplyAll(ApplyUpdate(st, Head(us), tm, Head(rs)), Tail(us), tm, Tail(rs))

NoDraw == <<0, 0, 0>>

\* the random values a render of the updates us can draw
Draws(us) ==
    {rs \in [1..Len(us) -> random \cup {NoDraw}] :
        \A i \in 1..Len(us) :
            IF us[i].hook = "trainingData" THEN rs[i] \in random ELSE rs[i] = NoDraw}

\* renderEvaluation, App.tsx:586: prediction.features.map throws when features
\* is not an array
RenderThrows(st) ==
    /\ st.step = "EVALUATION"
    /\ ~st.prediction.isNull
    /\ st.prediction.features.t # "array"

Commit(st) ==
    /\ step' = st.step
    /\ isTraining' = st.isTraining
    /\ trainingData' = st.trainingData
    /\ testImage' = st.testImage
    /\ prediction' = st.prediction
    /\ isAnalyzing' = st.isAnalyzing
    /\ summaryText' = st.summaryText
    /\ finalReport' = st.finalReport
    /\ crashed' = RenderThrows(st)

\* JavaScript runs: the tree is mounted and no alert dialog blocks the thread
Running == ~crashed /\ alert = ""

\* the updates us of a click handler: rendered, with all that is queued, when
\* the handler returns (tm: the timers as the handler leaves them)
RenderNow(us, tm) ==
    /\ \E rs \in Draws(pending \o us) : Commit(ApplyAll(Rendered, pending \o us, tm, rs))
    /\ pending' = <<>>

\* the updates us of a timer callback, promise continuation or reader event.
\* A legacy root renders each update inside the setState call, so an updater
\* runs before the rest of the callback (timers tmDuring); a concurrent root
\* queues them (an updater then runs at the render, after the callback)
CanEnqueue == batching => Len(pending) < MaxPending

Enqueue(us, tmDuring) ==
    IF batching
    THEN /\ pending' = pending \o us
         /\ UNCHANGED <<step, isTraining, trainingData, testImage, prediction,
                        isAnalyzing, summaryText, finalReport, crashed>>
    ELSE /\ \E rs \in Draws(us) : Commit(ApplyAll(Rendered, us, tmDuring, rs))
         /\ pending' = pending

\* React renders the queued updates
Render ==
    /\ Running
    /\ pending # <<>>
    /\ \E rs \in Draws(pending) : Commit(ApplyAll(Rendered, pending, timers, rs))
    /\ pending' = <<>>
    /\ UNCHANGED <<batching, random, timers, calls, readers, alert, loads>>

----------------------------------------------------------------------------
(* Wizard navigation *)

\* an Evaluate Model button that is never disabled
NextEnabledAlways == step # "SUMMARY"

\* the buttons bound to nextStep: App.tsx:233, 281, 344, 425, 494-495, 605
NextEnabled ==
    CASE step = "TRAINING" -> ~(isTraining \/ Len(trainingData) = 0)
      [] step = "SUMMARY" -> FALSE
      [] OTHER -> TRUE

NextStep ==
    /\ Running
    /\ NextEnabled
    /\ RenderNow(IF indexOf(step) < Len(ProjectStep)
                 THEN <<SetStep(nextStepOf(step))>> ELSE <<>>, timers)
    /\ UNCHANGED <<batching, random, timers, calls, readers, alert, loads>>

\* the Back buttons: every step but INTRO (App.tsx:280, 343, 424, 492, 604, 662)
PrevStep ==
    /\ Running
    /\ step # "INTRO"
    /\ RenderNow(IF indexOf(step) > 1
                 THEN <<SetStep(prevStepOf(step))>> ELSE <<>>, timers)
    /\ UNCHANGED <<batching, random, timers, calls, readers, alert, loads>>

----------------------------------------------------------------------------
(* simulateTraining, App.tsx:126-157 *)

\* the Start button offered whenever the series is empty
StartEnabledSeriesOnly == step = "TRAINING" /\ Len(trainingData) = 0

\* the Start button is rendered only under this condition, App.tsx:437
StartEnabled == step = "TRAINING" /\ ~isTraining /\ Len(trainingData) = 0

StartTraining ==
    /\ Running
    /\ StartEnabled
    /\ Len(timers) < MaxTimers
    /\ timers' = Append(timers, [currentEpoch |-> 1, active |-> TRUE])
    /\ RenderNow(<<SetIsTraining(TRUE), SetTrainingDataEmpty>>, timers')
    /\ UNCHANGED <<batching, random, calls, readers, alert, loads>>

\* the interval cleared one tick late
IsLastTickOffByOne(currentEpoch) == currentEpoch > totalEpochs

\* App.tsx:151: the tick after which the interval is cleared
IsLastTick(currentEpoch) == currentEpoch >= totalEpochs

\* setInterval(..., 400), App.tsx:132, 156: the render that a tick schedules
\* runs before the interval fires again
RenderedSinceLastTick == \A i \in 1..Len(pending) : pending[i].hook # "trainingData"

\* an interval callback whose last tick clears the interval and leaves the
\* running flag set
TickOfKeepsFlag(t) ==
    /\ Running
    /\ timers[t].active
    /\ RenderedSinceLastTick
    /\ LET last == IsLastTick(timers[t].currentEpoch)
           cleared == IF last THEN [timers EXCEPT ![t].active = FALSE] ELSE timers
       IN  /\ Enqueue(<<SetTrainingDataFn(t)>>, timers)
           /\ timers' = [cleared EXCEPT ![t].currentEpoch = @ + 1]
    /\ UNCHANGED <<batching, random, calls, readers, alert, loads>>

\* the interval callback of timer t, App.tsx:132-156
TickOf(t) ==
    /\ Running
    /\ timers[t].active
    /\ RenderedSinceLastTick
    /\ LET last == IsLastTick(timers[t].currentEpoch)
           cleared == IF last THEN [timers EXCEPT ![t].active = FALSE] ELSE timers
       IN  /\ Enqueue(<<SetTrainingDataFn(t)>>
                        \o (IF last THEN <<SetIsTraining(FALSE)>> ELSE <<>>), timers)
           /\ timers' = [cleared EXCEPT ![t].currentEpoch = @ + 1]
    /\ UNCHANGED <<batching, random, calls, readers, alert, loads>>

Tick == \E t \in 1..Len(timers) : TickOf(t)

\* Math.random(), App.tsx:138-140: the triples one tick may draw, in
\* hundredths: in a run of varying draws, and in a run of steady high draws
RandomDraws == {<<0, 0, 0>>, <<99, 99, 99>>}
SteadyDraws == {<<99, 99, 99>>}

----------------------------------------------------------------------------
(* The remote service and the gateway, src/geminiService.ts *)

Pending == [status |-> "pending", obj |-> Null, val |-> Undefined, error |-> NoError]
Fulfilled(o, v) == [status |-> "fulfilled", obj |-> o, val |-> v, error |-> NoError]
Rejected(e) == [status |-> "rejected", obj |-> Null, val |-> Undefined, error |-> e]

SyntaxError == [name |-> "SyntaxError", cause |-> "JSON.parse"]
TransportErrors ==
    {[name |-> "TransportError", cause |-> c] :
        c \in {"network unreachable", "credential rejected"}}

TextWellFormed ==
    "{label:cat,confidence:0.87,explanation:e,features:[fur texture,pointed ears,whiskers]}"
TextNoFeatures == "{label:cat,confidence:0.87,explanation:e}"
TextConfidenceString ==
    "{label:cat,confidence:high,explanation:e,features:[fur texture,pointed ears,whiskers]}"
TextConfidenceRange ==
    "{label:cat,confidence:1.5,explanation:e,features:[fur texture,pointed ears,whiskers]}"
TextNotJson == "It looks like a cat."

ValidJson ==
    {TextWellFormed, TextNoFeatures, TextConfidenceString, TextConfidenceRange}

SomeFeatures == Arr(<<"fur texture", "pointed ears", "whiskers">>)

\* the members of a JSON text, in the order of the text
Members(s) ==
    CASE s = TextWellFormed ->
            <<<<"label", Str("cat")>>, <<"confidence", Num(87)>>,
              <<"explanation", Str("e")>>, <<"features", SomeFeatures>>>>
      [] s = TextNoFeatures ->
            <<<<"label", Str("cat")>>, <<"confidence", Num(87)>>,
              <<"explanation", Str("e")>>>>
      [] s = TextConfidenceString ->
            <<<<"label", Str("cat")>>, <<"confidence", Str("high")>>,
              <<"explanation", Str("e")>>, <<"features", SomeFeatures>>>>
      [] s = TextConfidenceRange ->
            <<<<"label", Str("cat")>>, <<"confidence", Num(150)>>,
              <<"explanation", Str("e")>>, <<"features", SomeFeatures>>>>

\* the property k of the object built from the members ms: the value of the
\* last member named k, undefined when there is none
Property(ms, k) ==
    LET named == {i \in 1..Len(ms) : ms[i][1] = k}
    IN  IF named = {} THEN Undefined
        ELSE ms[CHOOSE i \in named : \A j \in named : j <= i][2]

\* the value a JSON text denotes
JsonValue(s) ==
    Obj(Property(Members(s), "label"), Property(Members(s), "confidence"),
        Property(Members(s), "explanation"), Property(Members(s), "features"))

\* JSON.parse: the value of a JSON text; throws on any other argument
\* (undefined is converted to the text "undefined", which is no JSON)
JSONparse(text) ==
    IF text.t = "string" /\ text.s \in ValidJson
    THEN [ok |-> TRUE, value |-> JsonValue(text.s)]
    ELSE [ok |-> FALSE, value |-> Null]

\* response.text of a generateContent answer
ClassifyTexts ==
    {Str(TextWellFormed), Str(TextNoFeatures), Str(TextConfidenceString),
     Str(TextConfidenceRange), Str(TextNotJson), Str(""), Undefined}
ReportTexts == {Str("Learning outcomes: ..."), Str(""), Undefined}

\* responseSchema, geminiService.ts:38-50: the shape asked of the service
ConformsToSchema(o) ==
    /\ ~o.isNull
    /\ o.label.t = "string"
    /\ o.confidence.t = "number"
    /\ o.explanation.t = "string"
    /\ o.features.t = "array"

\* a catch block that throws a new error in place of the one it caught
analyzeClassificationMasksCause(answer) ==
    IF answer.ok
    THEN IF JSONparse(answer.text).ok
         THEN Fulfilled(JSONparse(answer.text).value, Undefined)
         ELSE Rejected(SyntaxError)
    ELSE Rejected([name |-> "Error", cause |-> "classification failed"])

\* a gateway that rounds the confidence of the reply down to one decimal
analyzeClassificationRoundsConfidence(answer) ==
    IF answer.ok
    THEN IF JSONparse(answer.text).ok
         THEN Fulfilled([JSONparse(answer.text).value EXCEPT
                            !.confidence = IF @.t = "number"
                                           THEN Num((@.n \div 10) * 10) ELSE @],
                        Undefined)
         ELSE Rejected(SyntaxError)
    ELSE Rejected(answer.error)

\* analyzeClassification, geminiService.ts:25-58, once generateContent settles:
\* answer.ok with answer.text, or the error it threw
analyzeClassification(answer) ==
    IF answer.ok
    THEN IF JSONparse(answer.text).ok
         THEN Fulfilled(JSONparse(answer.text).value, Undefined)
         ELSE Rejected(SyntaxError)
    ELSE Rejected(answer.error)

\* generateFinalReport, geminiService.ts:61-68
generateFinalReport(answer) ==
    IF answer.ok THEN Fulfilled(Null, answer.text) ELSE Rejected(answer.error)

Settle(c, answer) ==
    IF c.op = "classify" THEN analyzeClassification(answer) ELSE generateFinalReport(answer)

NoAnswer == [ok |-> FALSE, text |-> Undefined, error |-> NoError]
TextAnswer(text) == [ok |-> TRUE, text |-> text, error |-> NoError]
ErrorAnswer(e) == [ok |-> FALSE, text |-> Undefined, error |-> e]

\* a gateway call: one generateContent request is sent when it starts
NewCall(op, image, summary, atStep) ==
    [op |-> op, image |-> image, summary |-> summary, stepAtClick |-> atStep,
     requests |-> 1, answers |-> 0, answer |-> NoAnswer, promise |-> Pending]

\* a gateway that sends its request once more when the first one fails
OnAnswerRetry(c, answer) ==
    IF ~answer.ok /\ c.requests < 2
    THEN [c EXCEPT !.requests = @ + 1, !.answers = @ + 1, !.answer = answer]
    ELSE [c EXCEPT !.answers = @ + 1, !.answer = answer, !.promise = Settle(c, answer)]

\* what the gateway does with the answer to the request of call c
OnAnswer(c, answer) ==
    [c EXCEPT !.answers = @ + 1, !.answer = answer, !.promise = Settle(c, answer)]

RemoveAt(q, i) == SubSeq(q, 1, i - 1) \o SubSeq(q, i + 1, Len(q))

ServiceReply ==
    \E i \in 1..Len(calls) :
        /\ Running
        /\ calls[i].promise.status = "pending"
        /\ \E text \in (IF calls[i].op = "classify" THEN ClassifyTexts ELSE ReportTexts) :
            calls' = [calls EXCEPT
                        ![i] = OnAnswer(@, TextAnswer(text))]
        /\ UNCHANGED <<batching, random, crashed, step, isTraining, trainingData, testImage,
                       prediction, isAnalyzing, summaryText, finalReport, timers,
                       pending, readers, alert, loads>>

ServiceError ==
    \E i \in 1..Len(calls) :
        /\ Running
        /\ calls[i].promise.status = "pending"
        /\ \E e \in TransportErrors :
            calls' = [calls EXCEPT
                        ![i] = OnAnswer(@, ErrorAnswer(e))]
        /\ UNCHANGED <<batching, random, crashed, step, isTraining, trainingData, testImage,
                       prediction, isAnalyzing, summaryText, finalReport, timers,
                       pending, readers, alert, loads>>

----------------------------------------------------------------------------
(* Evaluation step: handleImageUpload, handlePredict *)

\* the file input is rendered only while there is no image, App.tsx:518-539
UploadImage ==
    /\ Running
    /\ step = "EVALUATION"
    /\ testImage = NoImage
    /\ \E img \in Images \ readers : readers' = readers \cup {img}
    /\ UNCHANGED <<batching, random, crashed, step, isTraining, trainingData, testImage,
                   prediction, isAnalyzing, summaryText, finalReport, timers,
                   pending, calls, alert, loads>>

\* reader.onloadend, App.tsx:163-166
ReaderLoadEnd ==
    /\ Running
    /\ CanEnqueue
    /\ \E img \in readers :
        /\ Enqueue(<<SetTestImage(img), SetPrediction(Null)>>, timers)
        /\ readers' = readers \ {img}
    /\ UNCHANGED <<batching, random, timers, calls, alert, loads>>

\* the remove button, App.tsx:521-526
RemoveImage ==
    /\ Running
    /\ step = "EVALUATION"
    /\ testImage # NoImage
    /\ RenderNow(<<SetTestImage(NoImage)>>, timers)
    /\ UNCHANGED <<batching, random, timers, calls, readers, alert, loads>>

\* a Run Prediction button that is not disabled while a call is in flight
PredictEnabledWhileAnalyzing == step = "EVALUATION" /\ testImage # NoImage

\* the Run Prediction button, App.tsx:542-544
PredictEnabled == step = "EVALUATION" /\ testImage # NoImage /\ ~isAnalyzing

\* handlePredict up to its await, App.tsx:171-176
HandlePredict ==
    /\ Running
    /\ PredictEnabled
    /\ testImage # NoImage
    /\ Len(calls) < MaxCalls
    /\ RenderNow(<<SetIsAnalyzing(TRUE)>>, timers)
    /\ calls' = Append(calls, NewCall("classify", testImage, "", step))
    /\ UNCHANGED <<batching, random, timers, readers, alert, loads>>

PredictAlert == "Error analyzing image. Please check your API key."
ReportAlert == "Error generating report."

\* handlePredict resetting the indicator in its try block, with no finally
PredictUpdatesNoFinally(p) ==
    IF p.status = "fulfilled"
    THEN <<SetPrediction(p.obj), SetIsAnalyzing(FALSE)>> ELSE <<>>

\* what handlePredict sets after its await, App.tsx:177-182
PredictUpdates(p) ==
    (IF p.status = "fulfilled" THEN <<SetPrediction(p.obj)>> ELSE <<>>)
        \o <<SetIsAnalyzing(FALSE)>>

HandlePredictResume ==
    /\ Running
    /\ CanEnqueue
    /\ \E i \in 1..Len(calls) :
        /\ calls[i].op = "classify"
        /\ calls[i].promise.status = "fulfilled"
        /\ Enqueue(PredictUpdates(calls[i].promise), timers)
        /\ calls' = RemoveAt(calls, i)
    /\ UNCHANGED <<batching, random, timers, readers, alert, loads>>

----------------------------------------------------------------------------
(* Summary step: the reflection, handleGenerateReport, Restart *)

SummaryTexts == {"", "I learned about dropout and augmentation"}

\* the textarea, App.tsx:627-632
EditSummary ==
    /\ Running
    /\ step = "SUMMARY"
    /\ \E s \in SummaryTexts \ {summaryText} : RenderNow(<<SetSummaryText(s)>>, timers)
    /\ UNCHANGED <<batching, random, timers, calls, readers, alert, loads>>

\* the Generate button, App.tsx:634-637
ReportEnabled == step = "SUMMARY" /\ summaryText # "" /\ ~isAnalyzing

\* handleGenerateReport up to its await, App.tsx:185-188
HandleGenerateReport ==
    /\ Running
    /\ ReportEnabled
    /\ Len(calls) < MaxCalls
    /\ RenderNow(<<SetIsAnalyzing(TRUE)>>, timers)
    /\ calls' = Append(calls, NewCall("report", NoImage, summaryText, step))
    /\ UNCHANGED <<batching, random, timers, readers, alert, loads>>

\* what handleGenerateReport does after its await, App.tsx:189-195; nextStep
\* is the one of the render in which the button was clicked
ReportUpdates(p, atStep) ==
    (IF p.status = "fulfilled"
     THEN <<SetFinalReport(p.val)>>
            \o (IF indexOf(atStep) < Len(ProjectStep)
                THEN <<SetStep(nextStepOf(atStep))>> ELSE <<>>)
     ELSE <<>>)
        \o <<SetIsAnalyzing(FALSE)>>

HandleGenerateReportResume ==
    /\ Running
    /\ CanEnqueue
    /\ \E i \in 1..Len(calls) :
        /\ calls[i].op = "report"
        /\ calls[i].promise.status = "fulfilled"
        /\ Enqueue(ReportUpdates(calls[i].promise, calls[i].stepAtClick), timers)
        /\ calls' = RemoveAt(calls, i)
    /\ UNCHANGED <<batching, random, timers, readers, alert, loads>>

----------------------------------------------------------------------------
(* The catch and finally blocks of the two handlers *)

\* the message of the catch block of the handler of call c, App.tsx:179, 192
AlertOf(c) == IF c.op = "classify" THEN PredictAlert ELSE ReportAlert

\* the catch block of handlePredict or handleGenerateReport: window.alert
\* blocks the thread until the dialog is dismissed
HandlerCatch ==
    /\ Running
    /\ \E i \in 1..Len(calls) :
        /\ calls[i].promise.status = "rejected"
        /\ alert' = AlertOf(calls[i])
    /\ UNCHANGED <<batching, random, crashed, step, isTraining, trainingData,
                   testImage, prediction, isAnalyzing, summaryText, finalReport,
                   timers, pending, calls, readers, loads>>

\* the dialog is dismissed: the finally block runs, App.tsx:180-182, 193-195
DismissAlert ==
    /\ ~crashed
    /\ alert # ""
    /\ CanEnqueue
    /\ \E i \in 1..Len(calls) :
        /\ calls[i].promise.status = "rejected"
        /\ AlertOf(calls[i]) = alert
        /\ Enqueue(IF calls[i].op = "classify"
                   THEN PredictUpdates(calls[i].promise)
                   ELSE ReportUpdates(calls[i].promise, calls[i].stepAtClick), timers)
        /\ calls' = RemoveAt(calls, i)
    /\ alert' = ""
    /\ UNCHANGED <<batching, random, timers, readers, loads>>

----------------------------------------------------------------------------
(* The page *)

Mounted ==
    /\ crashed = FALSE
    /\ step = "INTRO"
    /\ isTraining = FALSE
    /\ trainingData = <<>>
    /\ testImage = NoImage
    /\ prediction = Null
    /\ isAnalyzing = FALSE
    /\ summaryText = ""
    /\ finalReport = Str("")
    /\ timers = <<>>
    /\ pending = <<>>
    /\ calls = <<>>
    /\ readers = {}
    /\ alert = ""
    /\ loads = 1

Init == batching \in BOOLEAN /\ random = SteadyDraws /\ Mounted

InitSim == batching \in BOOLEAN /\ random = RandomDraws /\ Mounted

\* Restart Project, App.tsx:663: window.location.reload()
Reload ==
    /\ Running
    /\ step = "SUMMARY"
    /\ loads < MaxLoads
    /\ loads' = loads + 1
    /\ batching' = batching
    /\ random' = random
    /\ crashed' = FALSE
    /\ step' = "INTRO"
    /\ isTraining' = FALSE
    /\ trainingData' = <<>>
    /\ testImage' = NoImage
    /\ prediction' = Null
    /\ isAnalyzing' = FALSE
    /\ summaryText' = ""
    /\ finalReport' = Str("")
    /\ timers' = <<>>
    /\ pending' = <<>>
    /\ calls' = <<>>
    /\ readers' = {}
    /\ alert' = ""

\* the whole wizard, every tick drawing the same high random values
Next ==
    \/ NextStep
    \/ PrevStep
    \/ StartTraining
    \/ Tick
    \/ Render
    \/ UploadImage
    \/ ReaderLoadEnd
    \/ RemoveImage
    \/ HandlePredict
    \/ ServiceReply
    \/ ServiceError
    \/ HandlePredictResume
    \/ HandlerCatch
    \/ DismissAlert
    \/ EditSummary
    \/ HandleGenerateReport
    \/ HandleGenerateReportResume
    \/ Reload

Spec == Init /\ [][Next]_vars

\* the training run alone, with varying random draws
NextSim ==
    \/ NextStep
    \/ StartTraining
    \/ Tick
    \/ Render

SpecSim == InitSim /\ [][NextSim]_vars

----------------------------------------------------------------------------
(* Properties *)

\* the hook states once every queued update is rendered (the random values of
\* a queued updater taken as zero: read only lengths, epochs and flags here)
Flushed ==
    ApplyAll(Rendered, pending, timers, [i \in 1..Len(pending) |-> NoDraw])

RunStopped == Len(timers) > 0 /\ \A t \in 1..Len(timers) : ~timers[t].active

RunCompleted == RunStopped /\ RenderedSinceLastTick

\* C1: a run left to complete holds exactly totalEpochs points whose epoch
\* fields are 1, 2, ..., totalEpochs in order, whenever the updater of a tick
\* is evaluated.
C1_EpochsOneToN ==
    RunCompleted =>
        /\ Len(trainingData) = totalEpochs
        /\ \A i \in 1..Len(trainingData) : trainingData[i].epoch = i

\* C2: every emitted point has 0.45 <= accuracy <= 0.98,
\* 0.42 <= val_accuracy <= 0.95, loss >= 0.10 and val_loss = loss * 1.1,
\* whatever the random draws.
C2_PointsWithinBounds ==
    \A i \in 1..Len(trainingData) :
        /\ 45000 <= trainingData[i].accuracy /\ trainingData[i].accuracy <= 98000
        /\ 42000 <= trainingData[i].val_accuracy /\ trainingData[i].val_accuracy <= 95000
        /\ trainingData[i].loss >= 10000
        /\ trainingData[i].val_loss * 10 = trainingData[i].loss * 11

\* a point clipped at both ceilings and at the floor, in a run that also
\* drew zeros (its first point stayed at the seeds)
C2_ClippedPoint ==
    /\ Len(trainingData) > 1
    /\ trainingData[1].accuracy = 45000
    /\ \E i \in 1..Len(trainingData) :
        /\ trainingData[i].accuracy = 98000
        /\ trainingData[i].val_accuracy = 95000
        /\ trainingData[i].loss = 10000

\* C3: the tick made with currentEpoch = totalEpochs clears the timer and
\* marks the run not running; from then on no point is appended until the
\* page is loaded again.
C3_RunStopsItself ==
    /\ [](\A t \in 1..Len(timers) :
            /\ timers[t].active <=> timers[t].currentEpoch <= totalEpochs
            /\ ~timers[t].active =>
                /\ ~Flushed.isTraining
                /\ Len(Flushed.trainingData) = totalEpochs)
    /\ [][(RunStopped /\ loads' = loads) =>
            /\ RunStopped'
            /\ Len(Flushed'.trainingData) = Len(Flushed.trainingData)
            /\ (pending = <<>> => trainingData' = trainingData)]_vars

C3_StoppedAfterLastEpoch ==
    /\ RunStopped
    /\ pending = <<>>
    /\ ~isTraining
    /\ Len(trainingData) = totalEpochs
    /\ step = "EVALUATION"

\* C4: a run stopped mid-run keeps exactly the k < N points it has: no point
\* is appended afterwards.  The wizard has no stop control; the one way to
\* abandon a run that is in progress is to leave the Training step.
AbandonedMidRun ==
    /\ Len(timers) > 0
    /\ step # "TRAINING"
    /\ Len(Flushed.trainingData) < totalEpochs

C4_StoppedRunEmitsNoMore ==
    [][(AbandonedMidRun /\ loads' = loads) =>
            Len(Flushed'.trainingData) = Len(Flushed.trainingData)]_vars

\* C5: after the first tick of a restarted run the series has length 1 and
\* its single point has epoch 1.
C5_RestartedRunFirstPoint ==
    (/\ loads > 1
     /\ Len(timers) = 1
     /\ timers[1].currentEpoch = 2
     /\ RenderedSinceLastTick)
        => (Len(trainingData) = 1 /\ trainingData[1].epoch = 1)

\* C6: at most one emission timer is active at any time.
C6_AtMostOneTimer ==
    Cardinality({t \in 1..Len(timers) : timers[t].active}) <= 1

\* a run in progress, some points emitted, the user on the Training step
\* (the Start button is not rendered there)
C6_RunInProgressOnTrainingStep ==
    /\ step = "TRAINING"
    /\ isTraining
    /\ \E t \in 1..Len(timers) : timers[t].active
    /\ Len(trainingData) > 2
    /\ ~StartEnabled

\* C7: a reply to classify that does not match the declared shape (field
\* missing, wrong type, text that does not parse) makes classify fail; no
\* result object is returned.
MatchesDeclaredShape(text) ==
    JSONparse(text).ok /\ ConformsToSchema(JSONparse(text).value)

C7_MalformedReplyFails ==
    \A i \in 1..Len(calls) :
        (/\ calls[i].op = "classify"
         /\ calls[i].answers > 0
         /\ calls[i].answer.ok
         /\ ~MatchesDeclaredShape(calls[i].answer.text))
            => calls[i].promise.status = "rejected"

\* C8: when the service call raises a transport error, classify and
\* generateReport fail with that very error and return no value; handling the
\* failed call changes neither the prediction, the final report nor the step.
C8_TransportErrorPropagates ==
    /\ [](\A i \in 1..Len(calls) :
            (calls[i].answers > 0 /\ ~calls[i].answer.ok)
                => calls[i].promise = Rejected(calls[i].answer.error))
    /\ [][((alert # "" \/ alert' # "") /\ loads' = loads) =>
            /\ Flushed'.prediction = Flushed.prediction
            /\ Flushed'.finalReport = Flushed.finalReport
            /\ Flushed'.step = Flushed.step]_vars

\* a second prediction failed on a transport error: the alert is open and
\* the earlier prediction is still stored
C8_FailedCallKeepsPrediction ==
    /\ alert = PredictAlert
    /\ ~prediction.isNull
    /\ \E i \in 1..Len(calls) :
        /\ calls[i].op = "classify"
        /\ calls[i].promise.status = "rejected"
        /\ calls[i].promise.error \in TransportErrors

\* C9: each call of classify or generateReport sends exactly one request, and
\* the call is settled as soon as that request is answered.
C9_SingleRequestPerCall ==
    \A i \in 1..Len(calls) :
        /\ calls[i].requests = 1
        /\ calls[i].answers <= 1
        /\ calls[i].answers = 1 <=> calls[i].promise.status # "pending"

\* a report call whose one request failed: rejected, nothing sent again
C9_FailedAfterOneRequest ==
    \E i \in 1..Len(calls) :
        /\ calls[i].op = "report"
        /\ calls[i].requests = 1
        /\ calls[i].answers = 1
        /\ ~calls[i].answer.ok
        /\ calls[i].promise.status = "rejected"

\* C10: the confidence of every stored prediction is a number within [0, 1].
C10_StoredConfidenceValidated ==
    ~prediction.isNull =>
        /\ prediction.confidence.t = "number"
        /\ 0 <= prediction.confidence.n
        /\ prediction.confidence.n <= 100

\* C11: when the handler of a settled gateway call has run, successful or
\* failed, isAnalyzing is false; handling a failed call does not take the
\* wizard down, and the indicator is never left set without a call in flight.
C11_AnalyzingResetAfterCall ==
    /\ [](calls = <<>> => ~Flushed.isAnalyzing)
    /\ [][(Len(calls') < Len(calls) /\ loads' = loads) =>
            /\ ~Flushed'.isAnalyzing
            /\ (alert # "" => crashed' = crashed)]_vars

\* the finally block of a failed prediction has just run (its only update is
\* queued), and the Run Prediction button is enabled by the next render
C11_IndicatorResetAfterFailure ==
    /\ pending = <<SetIsAnalyzing(FALSE)>>
    /\ calls = <<>>
    /\ isAnalyzing
    /\ ~crashed
    /\ step = "EVALUATION"
    /\ testImage # NoImage

\* C12: generateReport yields a report exactly when the text of the reply is
\* a non-empty string, and the report is then that text; an empty or absent
\* text is neither returned nor stored as a report.
C12_ReportIsNonEmptyReply ==
    /\ \A i \in 1..Len(calls) :
        (calls[i].op = "report" /\ calls[i].answers > 0 /\ calls[i].answer.ok) =>
            /\ calls[i].promise.status = "fulfilled"
                    <=> (calls[i].answer.text.t = "string" /\ calls[i].answer.text.s # "")
            /\ calls[i].promise.status = "fulfilled"
                    => calls[i].promise.val = calls[i].answer.text
    /\ finalReport.t = "string"

\* the field k of a result object
FieldOf(o, k) ==
    CASE k = "label" -> o.label
      [] k = "confidence" -> o.confidence
      [] k = "explanation" -> o.explanation
      [] k = "features" -> o.features

\* C13: for a reply that matches the declared shape, classify returns a
\* result whose four fields are exactly the values of the reply: for the
\* reply {label cat, confidence 0.87, explanation, three features} it returns
\* cat, 0.87 and the three features in their order.
C13_ClassifyReturnsReplyFields ==
    \A i \in 1..Len(calls) :
        (/\ calls[i].op = "classify"
         /\ calls[i].answers > 0
         /\ calls[i].answer.ok
         /\ MatchesDeclaredShape(calls[i].answer.text))
            => /\ calls[i].promise.status = "fulfilled"
               /\ \A m \in 1..Len(Members(calls[i].answer.text.s)) :
                    FieldOf(calls[i].promise.obj, Members(calls[i].answer.text.s)[m][1])
                        = Members(calls[i].answer.text.s)[m][2]
               /\ calls[i].answer.text.s = TextWellFormed =>
                    /\ calls[i].promise.obj.label = Str("cat")
                    /\ calls[i].promise.obj.confidence = Num(87)
                    /\ calls[i].promise.obj.explanation = Str("e")
                    /\ calls[i].promise.obj.features
                            = Arr(<<"fur texture", "pointed ears", "whiskers">>)

\* classify has returned the result of a well-formed reply
C13_WellFormedReplyReturned ==
    \E i \in 1..Len(calls) :
        /\ calls[i].op = "classify"
        /\ calls[i].answer.ok
        /\ calls[i].answer.text = Str(TextWellFormed)
        /\ calls[i].promise.status = "fulfilled"
        /\ ~calls[i].promise.obj.isNull

IsPrefix(a, b) == Len(a) <= Len(b) /\ SubSeq(b, 1, Len(a)) = a

\* within one run a render leaves the series as it is or appends one point
AppendsAtMostOne ==
    loads' = loads =>
        /\ IsPrefix(trainingData, trainingData')
        /\ Len(trainingData') <= Len(trainingData) + 1

\* C14: within one run the series is append-only (every tick adds one point
\* at the end and leaves the earlier points unchanged), and in every state
\* of the run its i-th point has epoch i.
C14_AppendOnlyEpochIsIndex ==
    /\ [](\A i \in 1..Len(trainingData) : trainingData[i].epoch = i)
    /\ [][AppendsAtMostOne]_vars

\* C15: isTraining is true exactly while an emission timer is active, and
\* while isTraining is false no timer is active, no point is queued and none
\* is appended, on whatever step the wizard is.
C15_RunningFlagTracksTimer ==
    /\ [](Flushed.isTraining <=> \E t \in 1..Len(timers) : timers[t].active)
    /\ [](~isTraining =>
            /\ \A t \in 1..Len(timers) : ~timers[t].active
            /\ RenderedSinceLastTick)
    /\ [][(~isTraining /\ loads' = loads) => trainingData' = trainingData]_vars

\* the user has left the Training step during a run: the flag is still set
\* and the timer still active
C15_RunningAwayFromTrainingStep ==
    /\ step \notin {"TRAINING", "INTRO"}
    /\ isTraining
    /\ \E t \in 1..Len(timers) : timers[t].active
    /\ Len(trainingData) > 3

\* C16: a stored prediction is the result of classifying the image held in
\* testImage: there is none while there is no image, a change of the image
\* leaves none stored, and a prediction is stored only from a classify call
\* made for the image held when it is stored.
C16_PredictionIsOfTestImage ==
    /\ [](~Flushed.prediction.isNull => Flushed.testImage # NoImage)
    /\ [][loads' = loads =>
            /\ Flushed'.testImage # Flushed.testImage => Flushed'.prediction.isNull
            /\ (Flushed'.prediction # Flushed.prediction /\ ~Flushed'.prediction.isNull)
                    => \E i \in 1..Len(calls) :
                            /\ calls[i].op = "classify"
                            /\ calls[i].image = Flushed'.testImage
                            /\ calls' = RemoveAt(calls, i)]_vars

\* C17: at most one gateway call started by the wizard is in flight, and
\* isAnalyzing is true exactly while one is: no call clears the flag while
\* another is pending.
C17_OneCallInFlight ==
    /\ Len(calls) <= 1
    /\ Flushed.isAnalyzing <=> calls # <<>>

\* a prediction is in flight and the user has moved on to the Summary step
\* and written a reflection: only the flag keeps the Generate button disabled
C17_CallInFlightOnOtherStep ==
    /\ step = "SUMMARY"
    /\ summaryText # ""
    /\ isAnalyzing
    /\ ~ReportEnabled
    /\ Len(calls) = 1
    /\ calls[1].op = "classify"
    /\ calls[1].promise.status = "pending"

\* C18: the step is EVALUATION or SUMMARY only if a training run has fully
\* completed: isTraining is then false and trainingData holds all 15 points.
C18_EvaluationOnlyAfterTraining ==
    step \in {"EVALUATION", "SUMMARY"} =>
        /\ ~isTraining
        /\ Len(trainingData) = 15
        /\ \A t \in 1..Len(timers) : ~timers[t].active

\* the Summary step reached after a full run, an image uploaded on the
\* Evaluation step on the way
C18_SummaryAfterFullRun ==
    /\ step = "SUMMARY"
    /\ ~isTraining
    /\ Len(trainingData) = 15
    /\ testImage # NoImage

\* values of Math.random(), in hundredths, tried on every series reached
DrawValues == {0, 1, 50, 99}

\* C19: across two consecutive points of a run accuracy and val_accuracy
\* never decrease and loss and val_loss never increase; and whatever the next
\* draw, the next point stays equal to the last only at the ceiling 0.98 /
\* 0.95, at the floor 0.10, or when the draw is zero.
C19_MetricsMonotone ==
    /\ \A i \in 1..(Len(trainingData) - 1) :
        /\ trainingData[i + 1].accuracy >= trainingData[i].accuracy
        /\ trainingData[i + 1].val_accuracy >= trainingData[i].val_accuracy
        /\ trainingData[i + 1].loss <= trainingData[i].loss
        /\ trainingData[i + 1].val_loss <= trainingData[i].val_loss
    /\ Len(trainingData) > 0 =>
        \A r \in DrawValues \X DrawValues \X DrawValues :
            LET last == trainingData[Len(trainingData)]
                next == NewPoint(trainingData, Len(trainingData) + 1, r)
            IN  /\ next.accuracy >= last.accuracy
                /\ next.val_accuracy >= last.val_accuracy
                /\ next.loss <= last.loss
                /\ next.val_loss <= last.val_loss
                /\ next.accuracy = last.accuracy => (last.accuracy = 98000 \/ r[1] = 0)
                /\ next.val_accuracy = last.val_accuracy
                        => (last.val_accuracy = 95000 \/ r[2] = 0)
                /\ next.loss = last.loss => (last.loss = 10000 \/ r[3] = 0)

\* a run with a strict rise, a plateau below the ceiling (a zero draw) and a
\* plateau at both ceilings and at the floor
C19_RiseAndPlateaus ==
    \E i, j, k \in 1..(Len(trainingData) - 1) :
        /\ trainingData[i + 1].accuracy > trainingData[i].accuracy
        /\ trainingData[i + 1].loss < trainingData[i].loss
        /\ trainingData[j + 1].accuracy = trainingData[j].accuracy
        /\ trainingData[j].accuracy < 98000
        /\ trainingData[k + 1].accuracy = trainingData[k].accuracy
        /\ trainingData[k].accuracy = 98000
        /\ trainingData[k + 1].val_accuracy = 95000
        /\ trainingData[k + 1].loss = trainingData[k].loss
        /\ trainingData[k].loss = 10000

====
